---------------------------- MODULE Spec2Model ----------------------------
(***************************************************************************)
(* Verification model of the programs of the repository:                   *)
(*                                                                         *)
(*  - PalletizerStateMachine and PalletizerContext                         *)
(*    (exercises/vision-palletizer/backend/palletizer/state_machine.py),   *)
(*    checked under the specification Spec;                                *)
(*  - Robot (exercises/gantry-pick-and-place/backend/robot_sim.py),        *)
(*    checked under RobotSpec (safety) and RobotLive (liveness);           *)
(*  - the module-level functions calculate_place_positions                 *)
(*    (palletizer/grid.py), camera_to_robot and robot_to_camera            *)
(*    (transforms/coordinate.py), checked under FnSpec.                    *)
(*                                                                         *)
(* ThreadSpec runs fault() and reset() of the state machine statement by   *)
(* statement, with the status query and configure() of another thread in   *)
(* between.                                                                *)
(*                                                                         *)
(* The programs share no state: each specification moves the variables     *)
(* of its own program and leaves the other program's variables as          *)
(* constructed.                                                            *)
(***************************************************************************)
EXTENDS Integers, Sequences, FiniteSets, TLC

VARIABLES
    state,      \* StateMachine.state: the library's state name
    context,    \* PalletizerStateMachine.context: a PalletizerContext
    call,       \* the last call made on the machine, its argument and outcome
    placed,     \* PLACING -> PICKING transitions since the last configure
    current_position,   \* Robot.current_position, as numerators over den
    axis_speed,         \* Robot.axis_speed, as numerators over den
    den,                \* the common denominator of position and velocity
    elapsed,            \* time.perf_counter() - Robot.last_motion_time
    gripper_state,      \* Robot.gripper_state
    result,             \* the last move_to or move_home call and its error
    commanded,          \* the target of the last call that returned no error
    polling,            \* whether, and how, the caller polls result.target
    fn,                 \* the last call of a module-level function, its outcome
    pc,                 \* where a thread stands inside fault() or reset()
    observed            \* the last status another thread has read

smVars == <<state, context, call, placed>>

robotVars == <<current_position, axis_speed, den, elapsed, gripper_state,
               result, commanded, polling>>

fnVars == <<fn>>

thVars == <<pc, observed>>

vars == <<smVars, robotVars, fnVars, thVars>>

\* What the calls on one program leave alone: the other programs' variables.
smRest == <<robotVars, fnVars, thVars>>

robotRest == <<smVars, fnVars, thVars>>

fnRest == <<smVars, robotVars, thVars>>

---------------------------------------------------------------------------
(* Bounds of the model and the inputs the operations are called with.      *)

MaxRows == 2
MaxCols == 2
MaxPlaced == 3
MaxElapsed == 3

BoxSizes == { <<100, 100, 50>>, <<150, 150, 75>> }
Origins == { <<400, -200, 100>>, <<500, -300, 150>> }
Messages == { "Test error", "jammed" }

\* Targets and speeds move_to is called with: inside and outside the axis
\* limits, inside and outside the accepted speeds.
Targets == { <<0, 0, 0>>, <<4, 2, 0>>, <<-2, 4, 0>>, <<0, -1001, 0>>,
             <<1001, 0, 0>> }
Speeds == { 0, 1, 100, 150 }

\* A robot constructed close to the upper limit of the first axis, and the
\* targets it is then sent to, all inside the limits.
EdgePosition == <<996, 0, 0>>
EdgeTargets == { <<996, 0, 0>>, <<1000, 1, 0>>, <<996, 4, 0>> }

\* Arguments of the module-level functions: the spacing between boxes and
\* the points to transform.
Spacings == { 0, 5, 10 }
Coordinates == { -100, 0, 250 }
Points == { <<x, y, z>> : x \in Coordinates, y \in Coordinates,
                          z \in Coordinates }

---------------------------------------------------------------------------
(* PalletizerState and the library's state names.                          *)

PalletizerState == { "IDLE", "HOMING", "PICKING", "PLACING", "FAULT" }

LibraryStates ==
    { "ready", "fault", "Running_homing", "Running_picking", "Running_placing" }

\* The current_state property: the mapping from the library's state name,
\* with IDLE as the default of mapping.get.
current_state_of(s) ==
    CASE s = "ready" -> "IDLE"
      [] s = "fault" -> "FAULT"
      [] s = "Running_homing" -> "HOMING"
      [] s = "Running_picking" -> "PICKING"
      [] s = "Running_placing" -> "PLACING"
      [] OTHER -> "IDLE"

current_state == current_state_of(state)

\* TRANSITIONS with finished_placing leading back to homing.
TRANSITIONS_PlacingToHoming ==
    { [trigger |-> "start", source |-> "ready", dest |-> "Running_homing"],
      [trigger |-> "finished_homing", source |-> "Running_homing",
       dest |-> "Running_picking"],
      [trigger |-> "finished_picking", source |-> "Running_picking",
       dest |-> "Running_placing"],
      [trigger |-> "finished_placing", source |-> "Running_placing",
       dest |-> "Running_homing"],
      [trigger |-> "cycle_complete", source |-> "Running_placing",
       dest |-> "ready"],
      [trigger |-> "stop", source |-> "Running_homing", dest |-> "ready"],
      [trigger |-> "stop", source |-> "Running_picking", dest |-> "ready"],
      [trigger |-> "stop", source |-> "Running_placing", dest |-> "ready"] }

\* TRANSITIONS with cycle_complete declared from picking instead of placing.
TRANSITIONS_CycleCompleteFromPicking ==
    { [trigger |-> "start", source |-> "ready", dest |-> "Running_homing"],
      [trigger |-> "finished_homing", source |-> "Running_homing",
       dest |-> "Running_picking"],
      [trigger |-> "finished_picking", source |-> "Running_picking",
       dest |-> "Running_placing"],
      [trigger |-> "finished_placing", source |-> "Running_placing",
       dest |-> "Running_picking"],
      [trigger |-> "cycle_complete", source |-> "Running_picking",
       dest |-> "ready"],
      [trigger |-> "stop", source |-> "Running_homing", dest |-> "ready"],
      [trigger |-> "stop", source |-> "Running_picking", dest |-> "ready"],
      [trigger |-> "stop", source |-> "Running_placing", dest |-> "ready"] }

\* The transitions declared by the module, as (trigger, source, dest).
TRANSITIONS ==
    { [trigger |-> "start", source |-> "ready", dest |-> "Running_homing"],
      [trigger |-> "finished_homing", source |-> "Running_homing",
       dest |-> "Running_picking"],
      [trigger |-> "finished_picking", source |-> "Running_picking",
       dest |-> "Running_placing"],
      [trigger |-> "finished_placing", source |-> "Running_placing",
       dest |-> "Running_picking"],
      [trigger |-> "cycle_complete", source |-> "Running_placing",
       dest |-> "ready"],
      [trigger |-> "stop", source |-> "Running_homing", dest |-> "ready"],
      [trigger |-> "stop", source |-> "Running_picking", dest |-> "ready"],
      [trigger |-> "stop", source |-> "Running_placing", dest |-> "ready"] }

\* The two transitions every StateMachine of the library carries, which
\* fault() and reset() fire: to_fault from any state, reset from fault.
BASE_TRANSITIONS ==
    { [trigger |-> "to_fault", source |-> s, dest |-> "fault"] :
        s \in LibraryStates }
    \cup { [trigger |-> "reset", source |-> "fault", dest |-> "ready"] }

TriggerNames ==
    { "start", "finished_homing", "finished_picking", "finished_placing",
      "cycle_complete", "stop", "to_fault", "reset" }

\* The PalletizerContext dataclass with its field defaults.
PalletizerContext ==
    [ rows |-> 2,
      cols |-> 2,
      box_size_mm |-> <<100, 100, 50>>,
      pallet_origin_mm |-> <<400, -200, 100>>,
      current_box_index |-> 0,
      total_boxes |-> 0,
      pick_position |-> "None",
      place_positions |-> << >>,
      error_message |-> "" ]

\* progress that reports error_message as it is, empty or not.
progress_RawMessage(s, ctx) ==
    [ state |-> current_state_of(s),
      current_box |-> ctx.current_box_index,
      total_boxes |-> ctx.total_boxes,
      error |-> ctx.error_message ]

\* The progress property: error is error_message when that is non-empty
\* (truthy) and None otherwise.
progress(s, ctx) ==
    [ state |-> current_state_of(s),
      current_box |-> ctx.current_box_index,
      total_boxes |-> ctx.total_boxes,
      error |-> IF ctx.error_message # "" THEN ctx.error_message ELSE "None" ]

---------------------------------------------------------------------------
(* State entry callbacks. Each one raises NotImplementedError before it    *)
(* touches the context; the library has already set the new state when it  *)
(* runs the callbacks of the state entered, so the exception leaves the    *)
(* machine in that state and propagates out of trigger().                  *)

on_enter_homing(ctx) == [context |-> ctx, raised |-> TRUE]

on_enter_picking(ctx) == [context |-> ctx, raised |-> TRUE]

on_enter_placing(ctx) == [context |-> ctx, raised |-> TRUE]

on_enter(dest, ctx) ==
    CASE dest = "Running_homing" -> on_enter_homing(ctx)
      [] dest = "Running_picking" -> on_enter_picking(ctx)
      [] dest = "Running_placing" -> on_enter_placing(ctx)
      [] OTHER -> [context |-> ctx, raised |-> FALSE]

\* trigger(name): the transition of that name leaving state s, if there is
\* one, then the entry callback of its destination; an exception (and no
\* change) when the trigger is not valid in s.
trigger(s, ctx, name) ==
    LET found == { t \in TRANSITIONS \cup BASE_TRANSITIONS :
                       t.trigger = name /\ t.source = s }
    IN  IF found = {}
        THEN [state |-> s, context |-> ctx, raised |-> TRUE]
        ELSE LET t == CHOOSE x \in found : TRUE
                 entered == on_enter(t.dest, ctx)
             IN  [state |-> t.dest, context |-> entered.context,
                  raised |-> entered.raised]

---------------------------------------------------------------------------
(* The public methods, each as the (state, context, return value) it       *)
(* leaves.                                                                 *)

\* configure without the check of the current state.
configure_AnyState(s, ctx, rows, cols, box_size_mm, pallet_origin_mm) ==
    [state |-> s,
     context |-> [ctx EXCEPT !.rows = rows,
                             !.cols = cols,
                             !.box_size_mm = box_size_mm,
                             !.pallet_origin_mm = pallet_origin_mm,
                             !.total_boxes = rows * cols,
                             !.current_box_index = 0,
                             !.place_positions = << >>],
     ret |-> "True"]

\* configure that sets current_box_index to the number of boxes.
configure_IndexPastEnd(s, ctx, rows, cols, box_size_mm, pallet_origin_mm) ==
    IF current_state_of(s) # "IDLE"
    THEN [state |-> s, context |-> ctx, ret |-> "False"]
    ELSE [state |-> s,
          context |-> [ctx EXCEPT !.rows = rows,
                                  !.cols = cols,
                                  !.box_size_mm = box_size_mm,
                                  !.pallet_origin_mm = pallet_origin_mm,
                                  !.total_boxes = rows * cols,
                                  !.current_box_index = rows * cols,
                                  !.place_positions = << >>],
          ret |-> "True"]

\* configure with total_boxes left as it was.
configure_StaleTotal(s, ctx, rows, cols, box_size_mm, pallet_origin_mm) ==
    IF current_state_of(s) # "IDLE"
    THEN [state |-> s, context |-> ctx, ret |-> "False"]
    ELSE [state |-> s,
          context |-> [ctx EXCEPT !.rows = rows,
                                  !.cols = cols,
                                  !.box_size_mm = box_size_mm,
                                  !.pallet_origin_mm = pallet_origin_mm,
                                  !.current_box_index = 0,
                                  !.place_positions = << >>],
          ret |-> "True"]

configure(s, ctx, rows, cols, box_size_mm, pallet_origin_mm) ==
    IF current_state_of(s) # "IDLE"
    THEN [state |-> s, context |-> ctx, ret |-> "False"]
    ELSE [state |-> s,
          context |-> [ctx EXCEPT !.rows = rows,
                                  !.cols = cols,
                                  !.box_size_mm = box_size_mm,
                                  !.pallet_origin_mm = pallet_origin_mm,
                                  !.total_boxes = rows * cols,
                                  !.current_box_index = 0,
                                  !.place_positions = << >>],
          ret |-> "True"]

begin(s, ctx) ==
    IF current_state_of(s) # "IDLE"
    THEN [state |-> s, context |-> ctx, ret |-> "False"]
    ELSE LET r == trigger(s, ctx, "start")
         IN  [state |-> r.state, context |-> r.context,
              ret |-> IF r.raised THEN "False" ELSE "True"]

\* stop that reports success without firing the stop trigger.
stop_NoTrigger(s, ctx) == [state |-> s, context |-> ctx, ret |-> "True"]

\* stop that treats FAULT like IDLE: nothing to stop, success.
stop_FaultAsIdle(s, ctx) ==
    IF current_state_of(s) \in { "IDLE", "FAULT" }
    THEN [state |-> s, context |-> ctx, ret |-> "True"]
    ELSE LET r == trigger(s, ctx, "stop")
         IN  [state |-> r.state, context |-> r.context,
              ret |-> IF r.raised THEN "False" ELSE "True"]

stop(s, ctx) ==
    IF current_state_of(s) = "IDLE"
    THEN [state |-> s, context |-> ctx, ret |-> "True"]
    ELSE LET r == trigger(s, ctx, "stop")
         IN  [state |-> r.state, context |-> r.context,
              ret |-> IF r.raised THEN "False" ELSE "True"]

\* reset that leaves error_message as it was.
reset_KeepsMessage(s, ctx) ==
    LET r == trigger(s, ctx, "reset")
    IN  [state |-> r.state, context |-> r.context,
         ret |-> IF r.raised THEN "False" ELSE "True"]

\* reset that clears error_message whether or not the trigger was accepted.
reset_ClearsOnFailure(s, ctx) ==
    LET r == trigger(s, ctx, "reset")
    IN  [state |-> r.state,
         context |-> [r.context EXCEPT !.error_message = ""],
         ret |-> IF r.raised THEN "False" ELSE "True"]

reset(s, ctx) ==
    LET r == trigger(s, ctx, "reset")
    IN  IF r.raised
        THEN [state |-> r.state, context |-> r.context, ret |-> "False"]
        ELSE [state |-> r.state,
              context |-> [r.context EXCEPT !.error_message = ""],
              ret |-> "True"]

fault(s, ctx, message) ==
    LET r == trigger(s, [ctx EXCEPT !.error_message = message], "to_fault")
    IN  [state |-> r.state, context |-> r.context,
         ret |-> IF r.raised THEN "False" ELSE "True"]

---------------------------------------------------------------------------
(* The machine after construction, and one action per call.                *)

NoCall == [op |-> "init", arg |-> "", from |-> "IDLE", ret |-> "None"]

SMInit ==
    /\ state = "ready"
    /\ context = PalletizerContext
    /\ call = NoCall
    /\ placed = 0

\* The count of PLACING -> PICKING transitions since the last successful
\* configure, kept up to MaxPlaced.
CountPlaced(s, t, n) ==
    IF current_state_of(s) = "PLACING" /\ current_state_of(t) = "PICKING"
         /\ n < MaxPlaced
    THEN n + 1
    ELSE n

Configure ==
    \E rows \in 1..MaxRows, cols \in 1..MaxCols,
       box \in BoxSizes, origin \in Origins :
        LET r == configure(state, context, rows, cols, box, origin)
        IN  /\ state' = r.state
            /\ context' = r.context
            /\ call' = [op |-> "configure", arg |-> <<rows, cols, box, origin>>,
                        from |-> current_state, ret |-> r.ret]
            /\ placed' = IF r.ret = "True" THEN 0 ELSE placed

Begin ==
    LET r == begin(state, context)
    IN  /\ state' = r.state
        /\ context' = r.context
        /\ call' = [op |-> "begin", arg |-> "", from |-> current_state,
                    ret |-> r.ret]
        /\ placed' = CountPlaced(state, r.state, placed)

Stop ==
    LET r == stop(state, context)
    IN  /\ state' = r.state
        /\ context' = r.context
        /\ call' = [op |-> "stop", arg |-> "", from |-> current_state,
                    ret |-> r.ret]
        /\ placed' = CountPlaced(state, r.state, placed)

Reset ==
    LET r == reset(state, context)
    IN  /\ state' = r.state
        /\ context' = r.context
        /\ call' = [op |-> "reset", arg |-> "", from |-> current_state,
                    ret |-> r.ret]
        /\ placed' = CountPlaced(state, r.state, placed)

Fault ==
    \E message \in Messages :
        LET r == fault(state, context, message)
        IN  /\ state' = r.state
            /\ context' = r.context
            /\ call' = [op |-> "fault", arg |-> message,
                        from |-> current_state, ret |-> r.ret]
            /\ placed' = CountPlaced(state, r.state, placed)

\* machine.trigger(name) called directly, as the entry callbacks and the
\* tests do.
Trigger ==
    \E name \in TriggerNames :
        LET r == trigger(state, context, name)
        IN  /\ state' = r.state
            /\ context' = r.context
            /\ call' = [op |-> "trigger", arg |-> name,
                        from |-> current_state,
                        ret |-> IF r.raised THEN "raised" ELSE "None"]
            /\ placed' = CountPlaced(state, r.state, placed)

---------------------------------------------------------------------------
(* Robot. Positions and velocities are rationals: current_position[i]/den  *)
(* millimetres and axis_speed[i]/den millimetres per unit of time; the     *)
(* arithmetic is exact, the rounding of Python floats is not modelled. The *)
(* clock is kept relative to the last update: elapsed is what              *)
(* time.perf_counter() - last_motion_time would evaluate to, so a call     *)
(* that leaves last_motion_time alone leaves elapsed alone, and the call   *)
(* that stores the clock in last_motion_time sets elapsed to 0.            *)

Axes == 1..3

robot_limits == <<1000, 1000, 1000>>

home_position == <<0, 0, 0>>

initial_position == <<0, 0, 0>>

Abs(x) == IF x < 0 THEN -x ELSE x

AllZero(v) == \A i \in Axes : v[i] = 0

\* target - current_position per axis, as numerators over d.
Delta(pos, d, target) == [i \in Axes |-> target[i] * d - pos[i]]

\* max(delta) without key=abs, then abs.
ControlAxisDistance_NoKey(delta) ==
    LET i == CHOOSE j \in Axes : \A k \in Axes : delta[k] <= delta[j]
    IN  Abs(delta[i])

\* max(delta, key=abs), then abs: the largest absolute delta.
ControlAxisDistance(delta) ==
    LET i == CHOOSE j \in Axes : \A k \in Axes : Abs(delta[k]) <= Abs(delta[j])
    IN  Abs(delta[i])

\* _plan_motion: axis_speed[i] = delta[i] / (|control delta| / speed).
\* Position and velocity are put over the denominator d * |control delta|.
\* Dividing by speed = 0 raises ZeroDivisionError.
_plan_motion(pos, d, target, speed) ==
    LET delta == Delta(pos, d, target)
        dist == ControlAxisDistance(delta)
    IN  IF speed = 0
        THEN [raised |-> TRUE, pos |-> pos, vel |-> [i \in Axes |-> 0],
              den |-> d]
        ELSE [raised |-> FALSE,
              pos |-> [i \in Axes |-> pos[i] * dist],
              vel |-> [i \in Axes |-> delta[i] * speed * d],
              den |-> d * dist]

\* A position test that never answers yes: the early return of move_to is
\* never taken.
_same_position_Never(pos, d, target) == FALSE

_same_position(pos, d, target) ==
    \A i \in Axes : Delta(pos, d, target)[i] = 0

\* A completion test that waits for the position to equal the target.
_is_motion_completed_ExactOnly(pos, d, vel, target) ==
    \A i \in Axes : Delta(pos, d, target)[i] = 0

\* _is_motion_completed: no axis still has its target ahead of it in its
\* direction of travel.
_is_motion_completed(pos, d, vel, target) ==
    \A i \in Axes :
        ~ \/ (Delta(pos, d, target)[i] > 0 /\ vel[i] > 0)
          \/ (Delta(pos, d, target)[i] < 0 /\ vel[i] < 0)

\* delta_t with last_motion_time set to the clock on every call.
DeltaT_AlwaysRestarted(starting, since) == 0

\* delta_t with last_motion_time left alone by the call that plans a motion.
DeltaT_StaleClock(starting, since) == since

\* delta_t = actual_time - last_motion_time, where a call that starts a
\* motion has just set last_motion_time to actual_time.
DeltaT(starting, since) == IF starting THEN 0 ELSE since

SpeedAccepted(speed) == 0 <= speed /\ speed <= 100

\* A limit check that tests the upper limit only.
WithinLimits_UpperOnly(target) ==
    \A i \in Axes : ~(target[i] > robot_limits[i])

WithinLimits(target) ==
    \A i \in Axes : ~(target[i] > robot_limits[i] \/ target[i] < -robot_limits[i])

\* move_to on the robot rb = [pos, vel, den, elapsed]: the robot it leaves
\* and the error it returns ("none" for None, "ZeroDivisionError" for the
\* exception _plan_motion raises).
move_to(rb, target, speed) ==
    IF ~SpeedAccepted(speed)
    THEN [rb |-> rb, err |-> "speed"]
    ELSE IF ~WithinLimits(target)
    THEN [rb |-> rb, err |-> "limit"]
    ELSE IF _same_position(rb.pos, rb.den, target)
    THEN [rb |-> rb, err |-> "none"]
    ELSE
      LET starting == AllZero(rb.vel)
          plan == _plan_motion(rb.pos, rb.den, target, speed)
      IN  IF starting /\ plan.raised
          THEN [rb |-> rb, err |-> "ZeroDivisionError"]
          ELSE
            LET p == IF starting THEN plan.pos ELSE rb.pos
                v == IF starting THEN plan.vel ELSE rb.vel
                d == IF starting THEN plan.den ELSE rb.den
                delta_t == DeltaT(starting, rb.elapsed)
                moved == [i \in Axes |-> p[i] + delta_t * v[i]]
            IN  IF _is_motion_completed(moved, d, v, target)
                THEN [rb |-> [pos |-> target, vel |-> [i \in Axes |-> 0],
                              den |-> 1, elapsed |-> 0],
                      err |-> "none"]
                ELSE [rb |-> [pos |-> moved, vel |-> v, den |-> d,
                              elapsed |-> 0],
                      err |-> "none"]

move_home(rb, speed) == move_to(rb, home_position, speed)

---------------------------------------------------------------------------
(* The robot after construction, and one action per call. Between calls    *)
(* the clock advances; the caller either issues single calls or polls one  *)
(* target, at positive intervals, until a call reports it reached. polling *)
(* is "no" outside a polling loop, "active" in a loop that started with    *)
(* the robot at rest, "retargeted" in a loop that started while another    *)
(* motion was under way, and "reached" once a loop started at rest has     *)
(* ended.                                                                  *)

Polling == { "active", "retargeted" }

Robot == [pos |-> current_position, vel |-> axis_speed, den |-> den,
          elapsed |-> elapsed]

ValidSpeeds == { s \in Speeds : 0 < s /\ s <= 100 }

InLimitTargets == { t \in Targets : WithinLimits(t) }

\* Robot(initial_position = p).
RobotAt(p) ==
    /\ current_position = p
    /\ axis_speed = <<0, 0, 0>>
    /\ den = 1
    /\ elapsed = 0
    /\ gripper_state = "OPEN"
    /\ result = [op |-> "init", target |-> <<0, 0, 0>>, speed |-> 0,
                 err |-> "none"]
    /\ commanded = <<>>
    /\ polling = "no"

RobotInit == RobotAt(initial_position)

Returned(op, r, target, speed) ==
    /\ current_position' = r.rb.pos
    /\ axis_speed' = r.rb.vel
    /\ den' = r.rb.den
    /\ elapsed' = r.rb.elapsed
    /\ result' = [op |-> op, target |-> target, speed |-> speed,
                  err |-> r.err]
    /\ commanded' = IF r.err = "none" THEN target ELSE commanded

\* The call reported the target reached: no error, zero velocity, position
\* equal to the target.
Reached(r, target) ==
    /\ r.err = "none"
    /\ AllZero(r.rb.vel)
    /\ r.rb.den = 1
    /\ r.rb.pos = target

\* The clock advances by one unit.
Tick ==
    /\ elapsed < MaxElapsed
    /\ elapsed' = elapsed + 1
    /\ UNCHANGED <<current_position, axis_speed, den, gripper_state, result,
                   commanded, polling>>

\* A single move_to call.
MoveTo(target, speed) ==
    /\ polling \notin Polling
    /\ Returned("move_to", move_to(Robot, target, speed), target, speed)
    /\ polling' = "no"
    /\ UNCHANGED gripper_state

MoveHome(speed) ==
    /\ polling \notin Polling
    /\ Returned("move_home", move_home(Robot, speed), home_position, speed)
    /\ polling' = "no"
    /\ UNCHANGED gripper_state

\* The caller starts polling a target inside the limits at an accepted
\* speed.
StartPolling(target, speed) ==
    /\ polling \notin Polling
    /\ LET r == move_to(Robot, target, speed)
       IN  /\ Returned("move_to", r, target, speed)
           /\ polling' = IF Reached(r, target) THEN "no"
                         ELSE IF AllZero(axis_speed) THEN "active"
                         ELSE "retargeted"
    /\ UNCHANGED gripper_state

\* The next call of the polling loop, a positive interval after the last.
Poll ==
    /\ polling \in Polling
    /\ elapsed > 0
    /\ LET r == move_to(Robot, result.target, result.speed)
       IN  /\ Returned("move_to", r, result.target, result.speed)
           /\ polling' = IF ~Reached(r, result.target) THEN polling
                         ELSE IF polling = "active" THEN "reached"
                         ELSE "no"
    /\ UNCHANGED gripper_state

closed_gripper ==
    /\ gripper_state' = "CLOSED"
    /\ UNCHANGED <<current_position, axis_speed, den, elapsed, result,
                   commanded, polling>>

open_gripper ==
    /\ gripper_state' = "OPEN"
    /\ UNCHANGED <<current_position, axis_speed, den, elapsed, result,
                   commanded, polling>>

---------------------------------------------------------------------------
(* The module-level functions. Each returns its value or raises; fn holds   *)
(* the last call, its arguments and its outcome.                           *)

\* calculate_place_positions: the body is raise NotImplementedError.
calculate_place_positions(rows, cols, box_size_mm, origin_mm, spacing_mm) ==
    [raised |-> TRUE, value |-> << >>]

\* camera_to_robot: the body is raise NotImplementedError.
camera_to_robot(point_camera) == [raised |-> TRUE, value |-> << >>]

\* robot_to_camera: the body is raise NotImplementedError.
robot_to_camera(point_robot) == [raised |-> TRUE, value |-> << >>]

FnInit == fn = [op |-> "init", arg |-> << >>, raised |-> FALSE,
                value |-> << >>]

CalculatePlacePositions ==
    \E rows \in 1..MaxRows, cols \in 1..MaxCols, box \in BoxSizes,
       origin \in Origins, spacing \in Spacings :
        LET r == calculate_place_positions(rows, cols, box, origin, spacing)
        IN  fn' = [op |-> "calculate_place_positions",
                   arg |-> <<rows, cols, box, origin, spacing>>,
                   raised |-> r.raised, value |-> r.value]

CameraToRobot ==
    \E p \in Points :
        LET r == camera_to_robot(p)
        IN  fn' = [op |-> "camera_to_robot", arg |-> p,
                   raised |-> r.raised, value |-> r.value]

RobotToCamera ==
    \E p \in Points :
        LET r == robot_to_camera(p)
        IN  fn' = [op |-> "robot_to_camera", arg |-> p,
                   raised |-> r.raised, value |-> r.value]

\* robot_to_camera(camera_to_robot(p)): an exception of the inner call
\* propagates.
RoundTrip ==
    \E p \in Points :
        LET inner == camera_to_robot(p)
            r == IF inner.raised THEN inner ELSE robot_to_camera(inner.value)
        IN  fn' = [op |-> "round_trip", arg |-> p,
                   raised |-> r.raised, value |-> r.value]

---------------------------------------------------------------------------
(* fault() and reset() statement by statement. Neither method, nor the     *)
(* progress property, nor configure() takes a lock, so a second thread     *)
(* calling progress or configure() can run between the two statements of   *)
(* either. pc is "idle" outside the two methods, "fault_set" after fault()  *)
(* has stored the message and "reset_fired" after reset() has fired the    *)
(* reset trigger.                                                          *)

NoObservation == [state |-> "none", current_box |-> 0, total_boxes |-> 0,
                  error |-> "None"]

ThreadInit == pc = "idle" /\ observed = NoObservation

\* fault(): self.context.error_message = message
FaultSetMessage ==
    /\ pc = "idle"
    /\ \E message \in Messages :
           context' = [context EXCEPT !.error_message = message]
    /\ pc' = "fault_set"
    /\ UNCHANGED <<state, call, placed, observed>>

\* fault(): self.trigger("to_fault"), then return
FaultTrigger ==
    /\ pc = "fault_set"
    /\ LET r == trigger(state, context, "to_fault")
       IN  /\ state' = r.state
           /\ context' = r.context
           /\ call' = [op |-> "fault", arg |-> context.error_message,
                       from |-> current_state,
                       ret |-> IF r.raised THEN "False" ELSE "True"]
           /\ placed' = CountPlaced(state, r.state, placed)
    /\ pc' = "idle"
    /\ UNCHANGED observed

\* reset(): self.trigger("reset"); an exception ends the call with False
ResetTrigger ==
    /\ pc = "idle"
    /\ LET r == trigger(state, context, "reset")
       IN  /\ state' = r.state
           /\ context' = r.context
           /\ placed' = CountPlaced(state, r.state, placed)
           /\ IF r.raised
              THEN /\ call' = [op |-> "reset", arg |-> "",
                               from |-> current_state, ret |-> "False"]
                   /\ pc' = "idle"
              ELSE /\ call' = call
                   /\ pc' = "reset_fired"
    /\ UNCHANGED observed

\* reset(): self.context.error_message = "", then return True
ResetClear ==
    /\ pc = "reset_fired"
    /\ context' = [context EXCEPT !.error_message = ""]
    /\ call' = [op |-> "reset", arg |-> "", from |-> "FAULT", ret |-> "True"]
    /\ pc' = "idle"
    /\ UNCHANGED <<state, placed, observed>>

\* Another thread reads progress, wherever the first thread stands.
ObserveProgress ==
    /\ observed' = progress(state, context)
    /\ UNCHANGED <<state, context, call, placed, pc>>

---------------------------------------------------------------------------
(* Specifications.                                                         *)

Init == SMInit /\ RobotInit /\ FnInit /\ ThreadInit

SMNext ==
    \/ Configure /\ UNCHANGED smRest
    \/ Begin /\ UNCHANGED smRest
    \/ Stop /\ UNCHANGED smRest
    \/ Reset /\ UNCHANGED smRest
    \/ Fault /\ UNCHANGED smRest
    \/ Trigger /\ UNCHANGED smRest

Spec == Init /\ [][SMNext]_vars

RobotNext ==
    \/ Tick /\ UNCHANGED robotRest
    \/ \E target \in Targets, speed \in Speeds :
           MoveTo(target, speed) /\ UNCHANGED robotRest
    \/ \E speed \in Speeds : MoveHome(speed) /\ UNCHANGED robotRest
    \/ \E target \in InLimitTargets, speed \in ValidSpeeds :
           StartPolling(target, speed) /\ UNCHANGED robotRest
    \/ Poll /\ UNCHANGED robotRest
    \/ closed_gripper /\ UNCHANGED robotRest
    \/ open_gripper /\ UNCHANGED robotRest

RobotSpec == Init /\ [][RobotNext]_vars

\* A robot constructed at EdgePosition and sent to the targets near the
\* limit with single move_to calls at accepted, positive speeds.
EdgeInit == SMInit /\ RobotAt(EdgePosition) /\ FnInit /\ ThreadInit

EdgeNext ==
    \/ Tick /\ UNCHANGED robotRest
    \/ \E target \in EdgeTargets, speed \in ValidSpeeds :
           MoveTo(target, speed) /\ UNCHANGED robotRest

EdgeSpec == EdgeInit /\ [][EdgeNext]_vars

FnNext ==
    \/ CalculatePlacePositions /\ UNCHANGED fnRest
    \/ CameraToRobot /\ UNCHANGED fnRest
    \/ RobotToCamera /\ UNCHANGED fnRest
    \/ RoundTrip /\ UNCHANGED fnRest

FnSpec == Init /\ [][FnNext]_vars

\* Two threads on one machine: one calls begin(), stop(), fault() and
\* reset(), the other progress and configure().
ThreadNext ==
    \/ pc = "idle" /\ Begin /\ UNCHANGED smRest
    \/ pc = "idle" /\ Stop /\ UNCHANGED smRest
    \/ FaultSetMessage /\ UNCHANGED <<robotVars, fnVars>>
    \/ FaultTrigger /\ UNCHANGED <<robotVars, fnVars>>
    \/ ResetTrigger /\ UNCHANGED <<robotVars, fnVars>>
    \/ ResetClear /\ UNCHANGED <<robotVars, fnVars>>
    \/ ObserveProgress /\ UNCHANGED <<robotVars, fnVars>>
    \/ Configure /\ UNCHANGED smRest

ThreadSpec == Init /\ [][ThreadNext]_vars

\* The caller of a polling loop keeps calling and the clock keeps advancing.
RobotLive ==
    /\ RobotSpec
    /\ WF_vars(Tick /\ UNCHANGED robotRest)
    /\ WF_vars(Poll /\ UNCHANGED robotRest)

---------------------------------------------------------------------------
(* Properties of the state machine, checked under Spec.                    *)

ActiveStates == { "HOMING", "PICKING", "PLACING" }

\* C1: configure called in any state other than IDLE (HOMING, PICKING,
\* PLACING, FAULT) returns False and changes neither the machine state nor
\* any field of the context.
C1_ConfigureOutsideIdleRejected ==
    [][ (call'.op = "configure" /\ current_state # "IDLE")
          => /\ call'.ret = "False"
             /\ state' = state
             /\ context' = context ]_vars

\* A configure with a grid other than the stored one was refused in PLACING.
C1_Witness ==
    /\ call.op = "configure"
    /\ call.from = "PLACING"
    /\ call.ret = "False"
    /\ current_state = "PLACING"
    /\ call.arg[1] # context.rows

\* C2: from IDLE the triggers start, finished_homing, finished_picking and
\* finished_placing each move the machine one state along
\* IDLE -> HOMING -> PICKING -> PLACING -> PICKING, and the
\* PICKING/PLACING loop repeats.
C2_TriggerChain ==
    call.op = "trigger" =>
        /\ (call.arg = "start" /\ call.from = "IDLE")
              => current_state = "HOMING"
        /\ (call.arg = "finished_homing" /\ call.from = "HOMING")
              => current_state = "PICKING"
        /\ (call.arg = "finished_picking" /\ call.from = "PICKING")
              => current_state = "PLACING"
        /\ (call.arg = "finished_placing" /\ call.from = "PLACING")
              => current_state = "PICKING"

\* finished_placing has just closed the loop for at least the second time.
C2_Witness ==
    /\ call.op = "trigger"
    /\ call.arg = "finished_placing"
    /\ call.from = "PLACING"
    /\ current_state = "PICKING"
    /\ placed >= 2

\* C3 as stated: cycle_complete moves PLACING to IDLE only when
\* current_box_index has reached rows*cols.
C3_Original ==
    ( /\ call.op = "trigger"
      /\ call.arg = "cycle_complete"
      /\ call.from = "PLACING"
      /\ current_state = "IDLE" )
        => context.current_box_index >= context.rows * context.cols

\* C3 as amended: cycle_complete fired in PLACING returns the machine to
\* IDLE whatever current_box_index is; the transition carries no condition
\* on the box index.
C3_CycleCompleteUnconditional ==
    ( /\ call.op = "trigger"
      /\ call.arg = "cycle_complete"
      /\ call.from = "PLACING" )
        => /\ current_state = "IDLE"
           /\ call.ret = "None"

\* cycle_complete returned the machine to IDLE with boxes still to place.
C3_Witness ==
    /\ call.op = "trigger"
    /\ call.arg = "cycle_complete"
    /\ call.from = "PLACING"
    /\ current_state = "IDLE"
    /\ context.current_box_index < context.rows * context.cols

C5_FaultThenReset ==
    /\ [](call.op = "fault"
            => /\ call.ret = "True"
               /\ current_state = "FAULT"
               /\ context.error_message = call.arg)
    /\ [][ (call.op = "fault" /\ call'.op = "reset")
             => /\ call'.ret = "True"
                /\ current_state_of(state') = "IDLE"
                /\ context'.error_message = "" ]_vars

\* A fault raised while placing has been reset.
C5_Witness ==
    /\ call.op = "reset"
    /\ call.from = "FAULT"
    /\ call.ret = "True"
    /\ current_state = "IDLE"
    /\ context.error_message = ""
    /\ placed >= 1

\* C6: in FAULT every call other than reset (begin, stop, configure, fault
\* and the triggers other than reset) leaves the machine in FAULT, and
\* begin, stop and configure return False.
C6_FaultTerminalUntilReset ==
    ( /\ call.from = "FAULT"
      /\ call.op \notin { "init", "reset" }
      /\ ~(call.op = "trigger" /\ call.arg = "reset") )
        => /\ current_state = "FAULT"
           /\ (call.op \in { "begin", "stop", "configure" }
                 => call.ret = "False")

\* stop() was refused in FAULT.
C6_Witness ==
    /\ call.op = "stop"
    /\ call.from = "FAULT"
    /\ call.ret = "False"
    /\ current_state = "FAULT"

\* C7: configure called in IDLE returns True, stores rows, cols, box size
\* and origin as given, sets total_boxes = rows*cols and
\* current_box_index = 0, and leaves the machine in IDLE.
C7_ConfigureInIdle ==
    (call.op = "configure" /\ call.from = "IDLE")
        => /\ call.ret = "True"
           /\ context.rows = call.arg[1]
           /\ context.cols = call.arg[2]
           /\ context.box_size_mm = call.arg[3]
           /\ context.pallet_origin_mm = call.arg[4]
           /\ context.total_boxes = call.arg[1] * call.arg[2]
           /\ context.current_box_index = 0
           /\ current_state = "IDLE"

\* A grid other than the default one has been configured.
C7_Witness ==
    /\ call.op = "configure"
    /\ call.from = "IDLE"
    /\ call.ret = "True"
    /\ context.rows = 1
    /\ context.cols = 2
    /\ context.total_boxes = 2
    /\ context.box_size_mm = <<150, 150, 75>>

\* C8: after a successful configure, place_positions holds exactly
\* rows*cols entries.
C8_PlacePositionsPrecomputed ==
    (call.op = "configure" /\ call.ret = "True")
        => Len(context.place_positions) = context.rows * context.cols

---------------------------------------------------------------------------
(* Properties of the robot, checked under RobotSpec and RobotLive.         *)

\* The last call was a move_to that reported target t reached: no error, an
\* all-zero velocity and a position equal to t.
ReportedReached(t) ==
    /\ result.op = "move_to"
    /\ result.target = t
    /\ result.err = "none"
    /\ AllZero(axis_speed)
    /\ den = 1
    /\ current_position = t

C10_SpeedOutsideRangeRejected ==
    [][ \A t \in Targets, s \in Speeds :
          (~(0 < s /\ s <= 100) /\ MoveTo(t, s))
            => /\ result'.err # "none"
               /\ UNCHANGED <<current_position, axis_speed, den, elapsed>>
      ]_vars

\* C11: move_to with a target that has an axis value outside
\* [-limit_i, +limit_i] returns an error and leaves position, velocity and
\* last-update time as they were before the call, whether the robot is at
\* rest or mid-motion and whatever the speed.
C11_OutOfLimitsRejected ==
    [][ \A t \in Targets, s \in Speeds :
          ( /\ \E i \in Axes : t[i] > robot_limits[i] \/ t[i] < -robot_limits[i]
            /\ MoveTo(t, s) )
            => /\ result'.err # "none"
               /\ move_to(Robot, t, s).rb = Robot
               /\ UNCHANGED <<current_position, axis_speed, den, elapsed>>
      ]_vars

\* A target below the lower limit of an axis was refused mid-motion, some
\* time after the last update.
C11_Witness ==
    /\ result.op = "move_to"
    /\ result.target = <<0, -1001, 0>>
    /\ result.err = "limit"
    /\ ~AllZero(axis_speed)
    /\ elapsed > 0

\* C12: a move_to with a target other than the one being driven, made while
\* the velocity is nonzero, is reported as an error and is not executed
\* (stated for the speeds in (0,100]).
C12_RetargetMidMotionIsError ==
    [][ \A t \in Targets, s \in ValidSpeeds :
          ( /\ ~AllZero(axis_speed)
            /\ commanded # <<>>
            /\ t # commanded
            /\ MoveTo(t, s) )
            => /\ result'.err # "none"
               /\ UNCHANGED <<current_position, axis_speed, den, elapsed>>
      ]_vars

C15_Original ==
    [][ \A t \in Targets, s \in Speeds :
          ( /\ \A i \in Axes : current_position[i] = t[i] * den
            /\ MoveTo(t, s) )
            => /\ result'.err = "none"
               /\ UNCHANGED <<current_position, axis_speed, den, elapsed>>
      ]_vars

\* C15 as amended: a move_to whose target equals the current position on
\* every axis, called with a speed and a target that pass the checks of
\* speed and limits, which come first,
\* returns the current position and velocity with no error and changes
\* neither position, velocity nor last-update time; calling it again gives
\* the same result.
C15_SamePositionIsNoOp ==
    [][ \A t \in Targets, s \in Speeds :
          ( /\ 0 <= s /\ s <= 100
            /\ \A i \in Axes : -robot_limits[i] <= t[i] /\ t[i] <= robot_limits[i]
            /\ \A i \in Axes : current_position[i] = t[i] * den
            /\ MoveTo(t, s) )
            => /\ result'.err = "none"
               /\ UNCHANGED <<current_position, axis_speed, den, elapsed>>
               /\ LET r == move_to(Robot, t, s)
                  IN  r.rb = Robot /\ move_to(r.rb, t, s) = r
      ]_vars

\* move_to was called with the position the robot is at while a motion
\* planned for another target is under way: the velocity is still nonzero.
C15_Witness ==
    /\ result.op = "move_to"
    /\ result.err = "none"
    /\ \A i \in Axes : current_position[i] = result.target[i] * den
    /\ ~AllZero(axis_speed)
    /\ elapsed > 0

\* C16: in every reachable state the velocity is all-zero exactly when the
\* robot has never been commanded or its position equals the last commanded
\* target, and nonzero exactly while the last commanded target has not been
\* reached.
C16_ZeroVelocityIffStationary ==
    AllZero(axis_speed)
        <=> \/ commanded = <<>>
            \/ \A i \in Axes : current_position[i] = commanded[i] * den

---------------------------------------------------------------------------
(* Properties of the cycle, checked under Spec.                            *)

\* C17: when the step run on entering HOMING, PICKING or PLACING fails
\* (begin() returns False from IDLE, or the trigger that enters the state
\* raises), the machine is left in FAULT with the error text in
\* error_message.
C17_HandlerFailureFaults ==
    ( \/ call.op = "begin" /\ call.from = "IDLE" /\ call.ret = "False"
      \/ /\ call.op = "trigger"
         /\ call.ret = "raised"
         /\ <<call.from, call.arg>> \in
                { <<"IDLE", "start">>, <<"HOMING", "finished_homing">>,
                  <<"PICKING", "finished_picking">>,
                  <<"PLACING", "finished_placing">> } )
        => /\ current_state = "FAULT"
           /\ context.error_message # ""

\* C18: every PLACING -> PICKING transition adds one to current_box_index,
\* so after k such transitions since the last successful configure (or since
\* construction) the index is k; stated for k below the bound MaxPlaced at
\* which the count saturates.
C18_IndexCountsPlacedBoxes ==
    placed < MaxPlaced => context.current_box_index = placed

C20_CompletionFollowsMotion ==
    ( /\ call.op = "trigger"
      /\ call.arg \in { "finished_homing", "finished_picking",
                        "finished_placing" }
      /\ current_state # call.from )
        => /\ AllZero(axis_speed)
           /\ call.arg = "finished_homing"
                 => \A i \in Axes : current_position[i] = home_position[i] * den
           /\ call.arg # "finished_homing"
                 => /\ commanded # <<>>
                    /\ \A i \in Axes : current_position[i] = commanded[i] * den
           /\ call.arg = "finished_picking" => gripper_state = "CLOSED"

\* C21: a newly constructed machine is in IDLE and its status reports state
\* "IDLE", current_box 0 and error None; in every state the status reports
\* the current state name, current_box_index and total_boxes, and its error
\* is None exactly when error_message is empty (and error_message
\* otherwise).
C21_StatusReportsState ==
    LET p == progress(state, context)
    IN  /\ p.state = current_state
        /\ p.state \in PalletizerState
        /\ p.current_box = context.current_box_index
        /\ p.total_boxes = context.total_boxes
        /\ p.error = "None" <=> context.error_message = ""
        /\ p.error # "None" => p.error = context.error_message
        /\ call.op = "init"
              => /\ current_state = "IDLE"
                 /\ p.state = "IDLE"
                 /\ p.current_box = 0
                 /\ p.error = "None"

\* The status of a machine faulted while placing on a configured 1x2 pallet
\* reports FAULT, two boxes and the fault's message.
C21_Witness ==
    /\ call.op = "fault"
    /\ call.from = "PLACING"
    /\ progress(state, context) =
          [ state |-> "FAULT", current_box |-> 0, total_boxes |-> 2,
            error |-> "jammed" ]

---------------------------------------------------------------------------
(* Properties of the module-level functions, checked under FnSpec.         *)

\* C22: calculate_place_positions(rows, cols, box_size, origin, spacing)
\* returns exactly rows*cols positions in row-major order, the one at index
\* k = row*cols + col being
\* origin + (col*(box_width+spacing), row*(box_depth+spacing), 0); for
\* rows=2, cols=2, box=(100,100,50), origin=(400,-200,100), spacing=10 it
\* returns (400,-200,100), (510,-200,100), (400,-90,100), (510,-90,100).
C22_PlacePositionsRowMajor ==
    fn.op = "calculate_place_positions" =>
        LET rows == fn.arg[1]
            cols == fn.arg[2]
            box == fn.arg[3]
            origin == fn.arg[4]
            spacing == fn.arg[5]
        IN  /\ ~fn.raised
            /\ Len(fn.value) = rows * cols
            /\ \A row \in 0..(rows - 1), col \in 0..(cols - 1) :
                  fn.value[row * cols + col + 1] =
                      << origin[1] + col * (box[1] + spacing),
                         origin[2] + row * (box[2] + spacing),
                         origin[3] >>
            /\ fn.arg = <<2, 2, <<100, 100, 50>>, <<400, -200, 100>>, 10>>
                  => fn.value = << <<400, -200, 100>>, <<510, -200, 100>>,
                                   <<400, -90, 100>>, <<510, -90, 100>> >>

\* C23: robot_to_camera is the inverse of camera_to_robot: for every point
\* p, robot_to_camera(camera_to_robot(p)) returns p (the points are
\* integers, so the tolerance is zero).
C23_RoundTripReturnsPoint ==
    fn.op = "round_trip" =>
        /\ ~fn.raised
        /\ fn.value = fn.arg

---------------------------------------------------------------------------
(* Further properties of the state machine, checked under Spec and, for    *)
(* calls interleaved between threads, under ThreadSpec.                    *)

\* C24: in every state reachable by sequentially executed operations
\* (configure, begin, stop, fault, reset and triggers), error_message is
\* empty whenever the state is not FAULT, and the status then reports error
\* None.
C24_NoErrorOutsideFault ==
    current_state # "FAULT"
        => /\ context.error_message = ""
           /\ progress(state, context).error = "None"

\* C25: a status query running on another thread, interleaved with fault()
\* or reset(), never reads a non-empty error_message together with a state
\* other than FAULT, and configure() on another thread never runs on such a
\* combination.
C25_NoTornStatus ==
    /\ [](observed # NoObservation
            => (observed.error # "None" => observed.state = "FAULT"))
    /\ [][ (call' # call /\ call'.op = "configure")
             => (context.error_message # "" => current_state = "FAULT")
         ]_vars

---------------------------------------------------------------------------
(* Further properties of the robot, checked under RobotSpec.               *)

\* C26: the move_to call that starts a motion (all-zero velocity before the
\* call, a target inside the limits that differs from the current position,
\* a speed in (0,100]) does not report completion on that call: it returns a
\* nonzero velocity and the position the robot had before the call, which is
\* not the target.
C26_StartingCallDoesNotComplete ==
    [][ \A t \in Targets, s \in Speeds :
          ( /\ AllZero(axis_speed)
            /\ 0 < s /\ s <= 100
            /\ \A i \in Axes : -robot_limits[i] <= t[i] /\ t[i] <= robot_limits[i]
            /\ \E i \in Axes : current_position[i] # t[i] * den
            /\ Returned("move_to", move_to(Robot, t, s), t, s) )
            => /\ result'.err = "none"
               /\ ~AllZero(axis_speed')
               /\ \A i \in Axes :
                     current_position'[i] * den = current_position[i] * den'
               /\ \E i \in Axes : current_position'[i] # t[i] * den'
      ]_vars

\* A motion from <<-2, 4, 0>> to <<4, 2, 0>> at speed 100 has just been
\* started, some time after the robot came to rest: the robot is still at
\* <<-2, 4, 0>>, with velocity <<100, -100/3, 0>>.
C26_Witness ==
    /\ result.target = <<4, 2, 0>>
    /\ result.speed = 100
    /\ result.err = "none"
    /\ den = 6
    /\ current_position = <<-12, 24, 0>>
    /\ axis_speed = <<600, -200, 0>>

---------------------------------------------------------------------------
(* Further properties of the calls of the state machine, checked under     *)
(* Spec.                                                                   *)

\* C27: begin() returns True exactly when it has moved the machine from IDLE
\* to HOMING, and whenever it returns False the machine is in the state it
\* was in before the call.
C27_BeginReportsTransition ==
    call.op = "begin" =>
        /\ call.ret = "True"
              <=> (call.from = "IDLE" /\ current_state = "HOMING")
        /\ call.ret = "False" => current_state = call.from

\* C28: a trigger fired in a state that has no transition for it changes
\* neither the state nor the context: start outside IDLE, finished_homing
\* outside HOMING, finished_picking outside PICKING, finished_placing or
\* cycle_complete outside PLACING, stop in IDLE or FAULT, and reset outside
\* FAULT; reset() outside FAULT returns False and does not clear
\* error_message, and stop() in IDLE returns True with no change.
C28_InvalidTriggerChangesNothing ==
    [][ /\ ( /\ call'.op = "trigger"
             /\ \/ call'.arg = "start" /\ current_state # "IDLE"
                \/ call'.arg = "finished_homing" /\ current_state # "HOMING"
                \/ call'.arg = "finished_picking" /\ current_state # "PICKING"
                \/ /\ call'.arg \in { "finished_placing", "cycle_complete" }
                   /\ current_state # "PLACING"
                \/ call'.arg = "stop" /\ current_state \in { "IDLE", "FAULT" }
                \/ call'.arg = "reset" /\ current_state # "FAULT" )
              => /\ call'.ret = "raised"
                 /\ state' = state
                 /\ context' = context
        /\ (call'.op = "reset" /\ current_state # "FAULT")
              => /\ call'.ret = "False"
                 /\ state' = state
                 /\ context' = context
        /\ (call'.op = "stop" /\ current_state = "IDLE")
              => /\ call'.ret = "True"
                 /\ state' = state
                 /\ context' = context
      ]_vars

\* reset() was refused in IDLE and left a non-empty error_message as it was.
C28_Witness ==
    /\ call.op = "reset"
    /\ call.from = "IDLE"
    /\ call.ret = "False"
    /\ current_state = "IDLE"
    /\ context.error_message = "jammed"

---------------------------------------------------------------------------
(* Properties of the robot's position, checked under EdgeSpec and          *)
(* RobotSpec.                                                              *)

\* C29: starting from a position within the axis limits, after any sequence
\* of move_to calls with targets inside the limits and speeds in (0,100],
\* calls that change the target mid-motion included, the position stays
\* within [-limit_i, +limit_i] on every axis.
C29_PositionWithinLimits ==
    \A i \in Axes :
        /\ -robot_limits[i] * den <= current_position[i]
        /\ current_position[i] <= robot_limits[i] * den

\* C30: in any single move_to call, target changes mid-motion included,
\* each axis's position changes by at most |velocity_i| times the time
\* elapsed since the last update: the robot never jumps to a target it
\* could not have reached by integrating its velocity.
C30_NoJump ==
    [][ \A t \in Targets, s \in ValidSpeeds :
          Returned("move_to", move_to(Robot, t, s), t, s)
            => \A i \in Axes :
                  Abs(current_position'[i] * den - current_position[i] * den')
                      <= Abs(axis_speed[i]) * elapsed * den'
      ]_vars

---------------------------------------------------------------------------
(* The box total of the context, checked under Spec.                       *)

\* C31: in every reachable state of the machine, the freshly constructed
\* one included, the total_boxes the status reports equals rows * cols of
\* the context.
C31_TotalBoxesIsRowsTimesCols ==
    progress(state, context).total_boxes = context.rows * context.cols

===========================================================================
